---- MODULE Spec2Model ----
(***************************************************************************)
(* CanDraw: the host store (src/app/page.tsx) that holds the canonical     *)
(* collection of diagram elements, and the canvas wrapper                  *)
(* (src/components/ExcalidrawCanvas.tsx and its fingerprint-based          *)
(* revision) that arbitrates between the drawing surface's onChange        *)
(* stream and the host's collection.                                       *)
(*                                                                         *)
(* Four specifications share one set of variables:                         *)
(*   Spec       the host store: setValue's regression policy and the       *)
(*              agent commands addElement / addMultipleElements;           *)
(*   SpecSnap   the host store with its arrow-snapping and duplicate-      *)
(*              elimination effect;                                        *)
(*   SpecCanvas the canvas of ExcalidrawCanvas.tsx (pushing flag, grace    *)
(*              flag, element cache);                                      *)
(*   SpecHash   the fingerprint-based canvas (getElementsHash, debounced   *)
(*              updateScene).                                              *)
(* A specification leaves the variables it does not use at their initial   *)
(* values.                                                                 *)
(***************************************************************************)
EXTENDS Integers, Sequences, FiniteSets, TLC

VARIABLES
    \* ---- host store (page.tsx) ----
    excalidrawElements,   \* the collection as bound by the latest render of the page
    reactState,           \* the value useState holds (what setExcalidrawElements last set)
    nonArrayStored,       \* setExcalidrawElements was given a value that is not an array
    lastUpdateRef,        \* [timestamp, source, count]
    now,                  \* Date.now(), in ms since the page was constructed
    commands,             \* number of agent commands executed so far
    hostEvent,            \* the last call of setValue or of a command, as logged
    \* ---- canvas (ExcalidrawCanvas.tsx) ----
    elements,             \* the elements prop (the host collection the canvas sees)
    scene,                \* what the drawing surface displays
    apiReady,             \* apiRef.current # null
    pushingSceneRef,
    ignoreFirstEmptyRef,
    elementCacheRef,
    lastValidCountRef,
    prevElementCountRef,
    effectPending,        \* the [elements] effect has not yet run for the current prop
    microtaskPending,     \* the queueMicrotask callback of the last push is queued
    sincePush,            \* ms since the last updateScene call (capped)
    pushedNonEmpty,       \* a push of a non-empty scene: "no", "inflight", "done"
    swallowed,            \* number of empty snapshots swallowed by the grace rule (capped)
    canvasEvent,          \* the last canvas operation, its argument and its outcome
    \* ---- fingerprint-based canvas ----
    lastPushedHashRef,
    lastReceivedHashRef,
    isUpdatingRef,
    debounceTimer,        \* the updateScene timeouts (see debouncedUpdateScene)
    clearTimer,           \* ms until the isUpdatingRef reset timeout is due, or NoTimer
    \* ---- arrow-snapping effect (page.tsx) ----
    snapPending,          \* the [excalidrawElements] effect has not yet run for this render
    snapEvent             \* the last run of the effect: what it computed and stored

hostVars   == <<excalidrawElements, reactState, nonArrayStored, lastUpdateRef, now,
                commands, hostEvent>>
canvasVars == <<elements, scene, apiReady, pushingSceneRef, ignoreFirstEmptyRef,
                elementCacheRef, lastValidCountRef, prevElementCountRef,
                effectPending, microtaskPending, sincePush, pushedNonEmpty,
                swallowed, canvasEvent>>
hashVars   == <<lastPushedHashRef, lastReceivedHashRef, isUpdatingRef,
                debounceTimer, clearTimer>>
snapVars   == <<snapPending, snapEvent>>
vars       == <<hostVars, canvasVars, hashVars, snapVars>>

(***************************************************************************)
(* Bounds of the model.                                                    *)
(***************************************************************************)
MaxCount    == 7      \* largest snapshot offered to setValue
MaxNow      == 4000   \* the clock stops advancing here
MaxCommands == 1      \* agent commands per behaviour
MaxSwallow  == 3      \* cap of the swallowed-snapshot counter
MaxScene    == 2      \* largest collection the canvas is driven with
MaxAge      == 60     \* sincePush stops counting here (ms)
MaxHashScene == 1     \* largest collection the fingerprint-based canvas is driven with
MaxArrows   == 2      \* arrows in a diagram drawn on the surface
MaxSnapCommands == 1  \* agent commands per behaviour of the snapping specification
MaxVersion  == 6      \* the snapping effect is not run on an element of this version

(***************************************************************************)
(* JavaScript values.                                                      *)
(***************************************************************************)
undefined   == -99999                 \* a missing numeric field
undefinedId == ""                     \* a missing (or empty, equally falsy) id

\* JS `v || d` on numbers: undefined and 0 are falsy
OrElse(v, d) == IF v = undefined \/ v = 0 THEN d ELSE v
\* JS `v !== undefined ? v : d`
IfDefined(v, d) == IF v = undefined THEN d ELSE v

Max(a, b) == IF a > b THEN a ELSE b
Min(a, b) == IF a < b THEN a ELSE b
Abs(a)    == IF a < 0 THEN -a ELSE a

(***************************************************************************)
(* Elements.  Every element carries the same fields; a field the element   *)
(* does not have holds the null value of its kind.  A focus is the exact   *)
(* fraction <<numerator, denominator>>.                                    *)
(***************************************************************************)
NullBinding     == [elementId |-> "", focus |-> <<0, 1>>, gap |-> 0]
undefinedPoints == << <<undefined, undefined>> >>
DefaultPoints   == << <<0, 0>>, <<100, 0>> >>

Element(id, type, x, y, w, h, version) ==
    [id |-> id, type |-> type, x |-> x, y |-> y, width |-> w, height |-> h,
     version |-> version, points |-> <<>>,
     startBinding |-> NullBinding, endBinding |-> NullBinding,
     boundElements |-> <<>>, isDeleted |-> FALSE]

BoxIds == <<"a_bg", "b_bg", "c", "d", "e", "f", "g", "h", "i">>

\* ids that end with "_bg" (String.prototype.endsWith on the ids in use)
EndsWithBg(id) == id \in {"a_bg", "b_bg"}

\* the n-box collection, every box at version v
Coll(n, v) == [i \in 1..n |-> Element(BoxIds[i], "rectangle", 300 * i, 100, 200, 150, v)]

\* the collections an external writer offers to setValue: up to MaxCount
\* boxes, and the one-box collection after an edit of its box
Snapshots == {Coll(n, 1) : n \in 0..MaxCount} \cup {Coll(1, 2)}

\* generated ids: `${type}_${Date.now()}_${random}`
GenIds == {"gen1", "gen2"}

(***************************************************************************)
(* page.tsx: useRegisterState.setValue                                     *)
(***************************************************************************)
\* String.prototype.includes on the sources lastUpdateRef can hold
IncludesProgrammatic(source) ==
    source \in {"programmatic_sequence", "programmatic_addElement",
                "programmatic_addMultipleElements"}
IncludesTool(source) == FALSE   \* no source lastUpdateRef can hold contains 'tool'

RecencyWindowMs      == 2000
SignificantReduction == 5

\* faulty variants: the window test made inclusive, the threshold moved by one
isRecentUpdate_Inclusive(timeSinceLastUpdate) == timeSinceLastUpdate <= RecencyWindowMs
isSignificantReduction_OffByOne(currentCount, newCount) ==
    (currentCount - newCount) > SignificantReduction + 1

isRecentUpdate(timeSinceLastUpdate) == timeSinceLastUpdate < RecencyWindowMs
isSignificantReduction(currentCount, newCount) ==
    (currentCount - newCount) > SignificantReduction
isFromProgrammaticUpdate(ref) ==
    IncludesProgrammatic(ref.source) \/ IncludesTool(ref.source)

\* faulty variant: Case 2 accepts only a strict increase
setValueDecision_StrictIncrease(cur, ref, newValue, t) ==
    LET currentCount == Len(cur)
        newCount     == Len(newValue)
        timeSinceLastUpdate == t - ref.timestamp
    IN  IF newCount = 0 THEN "clear"
        ELSE IF newCount > currentCount THEN "increase"
        ELSE IF isRecentUpdate(timeSinceLastUpdate)
                /\ ~isSignificantReduction(currentCount, newCount)
             THEN "minor_reduction"
        ELSE IF isFromProgrammaticUpdate(ref) /\ isRecentUpdate(timeSinceLastUpdate)
             THEN "programmatic_sequence"
        ELSE "blocked"

\* The decision of setValue for newValue offered at time t against the
\* collection cur and the last-update record ref.
setValueDecision(cur, ref, newValue, t) ==
    LET currentCount == Len(cur)
        newCount     == Len(newValue)
        timeSinceLastUpdate == t - ref.timestamp
    IN  IF newCount = 0 THEN "clear"
        ELSE IF newCount >= currentCount THEN "increase"
        ELSE IF isRecentUpdate(timeSinceLastUpdate)
                /\ ~isSignificantReduction(currentCount, newCount)
             THEN "minor_reduction"
        ELSE IF isFromProgrammaticUpdate(ref) /\ isRecentUpdate(timeSinceLastUpdate)
             THEN "programmatic_sequence"
        ELSE "blocked"

\* faulty variant: the blocking branch stamps the last-update record
setValue_StampOnBlock(state, cur, ref, newValue, t) ==
    LET decision == setValueDecision(cur, ref, newValue, t)
    IN  IF decision = "blocked"
        THEN [elements |-> state,
              ref      |-> [timestamp |-> t, source |-> decision, count |-> Len(state)],
              decision |-> decision]
        ELSE [elements |-> newValue,
              ref      |-> [timestamp |-> t, source |-> decision, count |-> Len(newValue)],
              decision |-> decision]

\* setValue as a state change of (the React state, lastUpdateRef): cur is the
\* excalidrawElements of the closure, state the value useState holds
setValue(state, cur, ref, newValue, t) ==
    LET decision == setValueDecision(cur, ref, newValue, t)
    IN  IF decision = "blocked"
        THEN [elements |-> state, ref |-> ref, decision |-> decision]
        ELSE [elements |-> newValue,
              ref      |-> [timestamp |-> t, source |-> decision, count |-> Len(newValue)],
              decision |-> decision]

(***************************************************************************)
(* page.tsx: stateSetters.addElement.execute                               *)
(***************************************************************************)
ElementData(id, type, x, y, w, h, version, points) ==
    [id |-> id, type |-> type, x |-> x, y |-> y, width |-> w, height |-> h,
     version |-> version, points |-> points,
     startBinding |-> NullBinding, endBinding |-> NullBinding]

checkOverlap(rect1, rect2) ==
    ~(\/ rect1.x + rect1.width <= rect2.x
      \/ rect2.x + rect2.width <= rect1.x
      \/ rect1.y + rect1.height <= rect2.y
      \/ rect2.y + rect2.height <= rect1.y)

PositionOffset == 50
maxAttempts    == 100

\* faulty variant: only the first element of current is looked at
hasOverlap_FirstOnly(current, testRect) ==
    /\ Len(current) > 0
    /\ current[1].type = "rectangle"
    /\ checkOverlap(testRect, current[1])

\* current.some(element => element.type === 'rectangle' && checkOverlap(...))
hasOverlap(current, testRect) ==
    \E i \in 1..Len(current) :
        current[i].type = "rectangle" /\ checkOverlap(testRect, current[i])

\* one pass through the while loop from the state st = (x, y, attempts): st
\* itself when the loop ends here (the limit is reached or testRect overlaps
\* nothing: break), else the next position tried
positioningStep(current, st, w, h) ==
    IF st.attempts >= maxAttempts THEN st
    ELSE IF ~hasOverlap(current, [x |-> st.x, y |-> st.y, width |-> w, height |-> h])
    THEN st
    ELSE LET a  == st.attempts + 1
             x1 == st.x + PositionOffset
             y1 == st.y + PositionOffset
             x2 == IF x1 > 800 THEN 100 + (a % 5) * 30 ELSE x1
             y2 == IF x1 > 800 THEN y1 + PositionOffset * 2 ELSE y1
             y3 == IF y2 > 600 THEN 100 + (a % 3) * 40 ELSE y2
         IN  [x |-> x2, y |-> y3, attempts |-> a]

\* the state the while loop is in after at most n more passes from st, the
\* passes taken half by half (the state after the first half is computed
\* once, as the one element of a set)
RECURSIVE positioningLoop(_, _, _, _, _)
positioningLoop(current, st, w, h, n) ==
    IF n = 0 \/ positioningStep(current, st, w, h) = st THEN st
    ELSE IF n = 1 THEN positioningStep(current, st, w, h)
    ELSE CHOOSE end \in { positioningLoop(current, mid, w, h, n - n \div 2) :
                              mid \in { positioningLoop(current, st, w, h, n \div 2) } } :
             TRUE

\* the while loop of the smart positioning from (targetX, targetY, attempts):
\* the state it ends in
AutoPosition(current, targetX, targetY, w, h, attempts) ==
    positioningLoop(current, [x |-> targetX, y |-> targetY, attempts |-> attempts],
                    w, h, maxAttempts)

\* first table background (id ends with _bg, type rectangle) whose bounds,
\* inclusive, hold the point; 0 when there is none
findTableAtCoordinates(current, x, y) ==
    LET hits == {i \in 1..Len(current) :
                    /\ EndsWithBg(current[i].id)
                    /\ current[i].type = "rectangle"
                    /\ x >= current[i].x
                    /\ x <= current[i].x + current[i].width
                    /\ y >= current[i].y
                    /\ y <= current[i].y + current[i].height}
    IN  IF hits = {} THEN 0 ELSE CHOOSE i \in hits : \A j \in hits : i <= j

\* focus = (|dx|/w > |dy|/h ? dy/h : dx/w) clamped to [-0.5, 0.5], as an exact
\* fraction; d is kept doubled so that the centre stays an integer.  For a
\* box of width or height 0 the division gives n/0: +-Infinity, clamped to
\* +-1/2, when n # 0, and <<0, 0>> for 0/0 = NaN, which the clamp returns as
\* it is
ClampHalf(num, den) ==
    IF 2 * num > den THEN <<1, 2>>
    ELSE IF 2 * num < -den THEN <<-1, 2>>
    ELSE <<num, den>>

addElementBindingFocus(table, pointX, pointY) ==
    LET dx2 == 2 * pointX - (2 * table.x + table.width)
        dy2 == 2 * pointY - (2 * table.y + table.height)
    IN  IF Abs(dx2) * table.height > Abs(dy2) * table.width
        THEN ClampHalf(dy2, 2 * table.height)
        ELSE ClampHalf(dx2, 2 * table.width)

\* the element addElement builds from elementData; genId is the generated id
addElementNew(current, elementData, genId) ==
    LET targetWidth  == OrElse(elementData.width, 200)
        targetHeight == OrElse(elementData.height, 150)
        userSpecifiedPosition ==
            elementData.x # undefined /\ elementData.y # undefined
        pos == IF ~userSpecifiedPosition /\ Len(current) > 0
               THEN AutoPosition(current, OrElse(elementData.x, 100),
                                 OrElse(elementData.y, 100),
                                 targetWidth, targetHeight, 0)
               ELSE [x |-> OrElse(elementData.x, 100),
                     y |-> OrElse(elementData.y, 100), attempts |-> 0]
        elementType == IF elementData.type = "" THEN "rectangle" ELSE elementData.type
        base == [id |-> IF elementData.id = undefinedId THEN genId ELSE elementData.id,
                 type |-> elementType,
                 version |-> OrElse(elementData.version, 1),
                 x |-> pos.x, y |-> pos.y,
                 width |-> targetWidth, height |-> targetHeight,
                 points |-> <<>>,
                 startBinding |-> NullBinding, endBinding |-> NullBinding,
                 boundElements |-> <<>>, isDeleted |-> FALSE]
        points == IF elementData.points = undefinedPoints
                  THEN DefaultPoints ELSE elementData.points
        startX == base.x
        startY == base.y
        endX   == startX + (IF Len(points) >= 2 THEN OrElse(points[2][1], 100) ELSE 100)
        endY   == startY + (IF Len(points) >= 2 THEN OrElse(points[2][2], 0) ELSE 0)
        sourceTable == findTableAtCoordinates(current, startX, startY)
        targetTable == findTableAtCoordinates(current, endX, endY)
        startBinding ==
            IF elementData.startBinding # NullBinding THEN elementData.startBinding
            ELSE IF sourceTable # 0
            THEN [elementId |-> current[sourceTable].id,
                  focus |-> addElementBindingFocus(current[sourceTable], endX, endY),
                  gap |-> 4]
            ELSE NullBinding
        endBinding ==
            IF elementData.endBinding # NullBinding THEN elementData.endBinding
            ELSE IF targetTable # 0
            THEN [elementId |-> current[targetTable].id,
                  focus |-> addElementBindingFocus(current[targetTable], startX, startY),
                  gap |-> 4]
            ELSE NullBinding
    IN  IF elementType = "arrow"
        THEN [base EXCEPT !.points = points,
                          !.startBinding = startBinding,
                          !.endBinding = endBinding]
        ELSE base

\* the bidirectional-binding pass over current for the new element
addElementUpdatedCurrent(current, newElement) ==
    IF newElement.type = "arrow"
       /\ (newElement.startBinding # NullBinding \/ newElement.endBinding # NullBinding)
    THEN [i \in 1..Len(current) |->
            LET element == current[i]
                isStartTarget == /\ newElement.startBinding # NullBinding
                                 /\ newElement.startBinding.elementId = element.id
                isEndTarget   == /\ newElement.endBinding # NullBinding
                                 /\ newElement.endBinding.elementId = element.id
                alreadyBound  == \E k \in 1..Len(element.boundElements) :
                                    element.boundElements[k] = newElement.id
            IN  IF ~isStartTarget /\ ~isEndTarget THEN element
                ELSE IF alreadyBound THEN element
                ELSE [element EXCEPT !.boundElements = Append(@, newElement.id)]]
    ELSE current

addElementResult(current, elementData, genId) ==
    LET newElement == addElementNew(current, elementData, genId)
    IN  Append(addElementUpdatedCurrent(current, newElement), newElement)

(***************************************************************************)
(* page.tsx: stateSetters.addMultipleElements.execute                      *)
(***************************************************************************)
\* one element of the batch; type "" stands for a null result (unknown type)
processElement(elementData, genId) ==
    LET id   == IF elementData.id = undefinedId THEN genId ELSE elementData.id
        base == [id |-> id, type |-> elementData.type,
                 version |-> OrElse(elementData.version, 1),
                 x |-> 0, y |-> 0, width |-> 0, height |-> 0,
                 points |-> <<>>,
                 startBinding |-> NullBinding, endBinding |-> NullBinding,
                 boundElements |-> <<>>, isDeleted |-> FALSE]
        points == IF elementData.points = undefinedPoints
                  THEN DefaultPoints ELSE elementData.points
    IN  IF elementData.type = "rectangle"
        THEN [base EXCEPT !.x = IfDefined(elementData.x, 100),
                          !.y = IfDefined(elementData.y, 100),
                          !.width = OrElse(elementData.width, 200),
                          !.height = OrElse(elementData.height, 150)]
        ELSE IF elementData.type = "text"
        THEN [base EXCEPT !.x = IfDefined(elementData.x, 100),
                          !.y = IfDefined(elementData.y, 100),
                          !.width = OrElse(elementData.width, 0),
                          !.height = OrElse(elementData.height, 0)]
        ELSE IF elementData.type \in {"line", "arrow"}
        THEN [base EXCEPT !.x = IfDefined(elementData.x, 0),
                          !.y = IfDefined(elementData.y, 0),
                          !.width = OrElse(elementData.width, 100),
                          !.height = OrElse(elementData.height, 0),
                          !.points = points,
                          !.startBinding = elementData.startBinding,
                          !.endBinding = elementData.endBinding]
        ELSE [base EXCEPT !.type = ""]

\* .map(...).filter(Boolean).  The generated id of an element also carries
\* its index in the batch; the batches used hold at most one element without id.
RECURSIVE processedElements(_, _)
processedElements(elementsToAdd, genId) ==
    IF elementsToAdd = <<>> THEN <<>>
    ELSE LET e == processElement(Head(elementsToAdd), genId)
             rest == processedElements(Tail(elementsToAdd), genId)
         IN  IF e.type = "" THEN rest ELSE <<e>> \o rest

addMultipleElementsResult(current, elementsToAdd, genId) ==
    current \o processedElements(elementsToAdd, genId)

(***************************************************************************)
(* The commands the agent layer issues.                                    *)
(***************************************************************************)
ElementSpecs ==
    { ElementData(undefinedId, "", undefined, undefined, undefined, undefined,
                  undefined, undefinedPoints),
      ElementData("r1", "rectangle", 0, 50, 100, 100, 3, undefinedPoints),
      ElementData("arr", "arrow", 400, 150, undefined, undefined, undefined,
                  << <<0, 0>>, <<300, 0>> >>),
      ElementData("a_bg", "rectangle", 700, 400, 200, 150, 1, undefinedPoints),
      [ElementData("arr2", "arrow", 50, 50, undefined, undefined, undefined,
                   << <<0, 0>>, <<10, 0>> >>)
          EXCEPT !.startBinding = [elementId |-> "ghost", focus |-> <<0, 1>>,
                                   gap |-> 4]] }

Batches ==
    { <<>>,
      << ElementData("m1", "rectangle", undefined, 0, undefined, undefined,
                     undefined, undefinedPoints),
         ElementData("m2", "ellipse", 10, 10, 10, 10, 1, undefinedPoints) >>,
      << ElementData(undefinedId, "text", 5, 5, undefined, undefined, undefined,
                     undefinedPoints) >>,
      << ElementData("m3", "rectangle", undefined, undefined, undefined, undefined,
                     undefined, undefinedPoints),
         ElementData("m4", "", 10, 10, undefined, undefined, undefined,
                     undefinedPoints) >> }

ClockSteps == {1999, 2000}

(***************************************************************************)
(* Initial state: the page and the canvas right after construction.        *)
(***************************************************************************)
NoTimer == -1
EmptyHash == <<>>

HostEvent(op, decision, arg, from, elapsed, lastSource) ==
    [op |-> op, decision |-> decision, arg |-> arg, from |-> from,
     elapsed |-> elapsed, lastSource |-> lastSource]

HostInit ==
    /\ excalidrawElements = <<>>
    /\ reactState = <<>>
    /\ nonArrayStored = FALSE
    /\ lastUpdateRef = [timestamp |-> 0, source |-> "init", count |-> 0]
    /\ now = 0
    /\ commands = 0
    /\ hostEvent = HostEvent("init", "none", <<>>, 0, 0, "init")

\* repeat: the operation before this one was an onChange with the same argument
CanvasEvent(op, arg, outcome) ==
    [op |-> op, arg |-> arg, outcome |-> outcome, repeat |-> FALSE]

CanvasInit ==
    /\ elements = <<>>
    /\ scene = <<>>
    /\ apiReady = FALSE
    /\ pushingSceneRef = FALSE
    /\ ignoreFirstEmptyRef = TRUE
    /\ elementCacheRef = <<>>
    /\ lastValidCountRef = 0
    /\ prevElementCountRef = 0
    /\ effectPending = TRUE
    /\ microtaskPending = FALSE
    /\ sincePush = MaxAge
    /\ pushedNonEmpty = "no"
    /\ swallowed = 0
    /\ canvasEvent = CanvasEvent("mount", <<>>, "none")

HashInit ==
    /\ lastPushedHashRef = EmptyHash
    /\ lastReceivedHashRef = EmptyHash
    /\ isUpdatingRef = FALSE
    /\ debounceTimer = [armed |-> FALSE, due |-> 0, elements |-> <<>>,
                        unreferenced |-> <<>>, replaced |-> FALSE]
    /\ clearTimer = NoTimer

SnapEvent(ran, changed, updated, result) ==
    [ran |-> ran, changed |-> changed, updated |-> updated, result |-> result]

SnapInit ==
    /\ snapPending = TRUE
    /\ snapEvent = SnapEvent(FALSE, FALSE, <<>>, <<>>)

Init == HostInit /\ CanvasInit /\ HashInit /\ SnapInit

(***************************************************************************)
(* Host actions.                                                           *)
(***************************************************************************)
\* what setValue logs on every call: the decision, the value offered and
\* {currentCount, timeSinceLastUpdate, lastSource}
HostCall(op, r, newValue, ref) ==
    HostEvent(op, r.decision, newValue, Len(excalidrawElements),
              now - ref.timestamp, ref.source)

\* A page whose state is not an array throws on its next render
\* (excalidrawElements.filter, elements.length): nothing runs after that.
Mounted == ~nonArrayStored

\* an external writer (the agent layer's state sync) offers newValue to
\* setValue; the closure compares it with the excalidrawElements of its render
SetValue(newValue) ==
    LET r == setValue(reactState, excalidrawElements, lastUpdateRef, newValue, now)
    IN  /\ Mounted
        /\ reactState' = r.elements
        /\ lastUpdateRef' = r.ref
        /\ hostEvent' = HostCall("setValue", r, newValue, lastUpdateRef)
        /\ UNCHANGED <<excalidrawElements, nonArrayStored, now, commands>>

\* setValue is offered a value that is not an array (lines 323-344):
\* newCount is 0, so Case 1 hands the value to setExcalidrawElements
SetValueNonArray ==
    /\ Mounted
    /\ reactState' = <<>>
    /\ nonArrayStored' = TRUE
    /\ lastUpdateRef' = [timestamp |-> now, source |-> "clear", count |-> 0]
    /\ hostEvent' = HostEvent("setValueNonArray", "clear", <<>>,
                               Len(excalidrawElements),
                               now - lastUpdateRef.timestamp, lastUpdateRef.source)
    /\ UNCHANGED <<excalidrawElements, now, commands>>

\* addElement.execute(current, setValueFunc, args) up to limit commands: builds
\* the element, marks the update as programmatic, then calls
\* setValueFunc(newElements).  current is the registered value
\* (value: excalidrawElements) and setValueFunc reaches the registered setValue.
AddElementUpTo(limit, elementData, genId) ==
    LET newElements == addElementResult(excalidrawElements, elementData, genId)
        marked == [timestamp |-> now, source |-> "programmatic_addElement",
                   count |-> Len(newElements)]
        r == setValue(reactState, excalidrawElements, marked, newElements, now)
    IN  /\ Mounted
        /\ commands < limit
        /\ commands' = commands + 1
        /\ reactState' = r.elements
        /\ lastUpdateRef' = r.ref
        /\ hostEvent' = HostCall("addElement", r, newElements, marked)
        /\ UNCHANGED <<excalidrawElements, nonArrayStored, now>>

AddElement(elementData, genId) == AddElementUpTo(MaxCommands, elementData, genId)

AddMultipleElements(elementsToAdd, genId) ==
    LET newElements == addMultipleElementsResult(excalidrawElements, elementsToAdd, genId)
        marked == [timestamp |-> now, source |-> "programmatic_addMultipleElements",
                   count |-> Len(newElements)]
        r == setValue(reactState, excalidrawElements, marked, newElements, now)
    IN  /\ Mounted
        /\ commands < MaxCommands
        /\ commands' = commands + 1
        /\ IF Len(elementsToAdd) = 0
           THEN /\ hostEvent' = HostEvent("addMultipleElements", "none", <<>>,
                                           Len(excalidrawElements), 0,
                                           lastUpdateRef.source)
                /\ UNCHANGED <<reactState, lastUpdateRef>>
           ELSE /\ reactState' = r.elements
                /\ lastUpdateRef' = r.ref
                /\ hostEvent' = HostCall("addMultipleElements", r, newElements, marked)
        /\ UNCHANGED <<excalidrawElements, nonArrayStored, now>>

\* the state setters page.tsx registers for excalidrawElements
stateSetters == {"addElement", "addMultipleElements"}

\* the arguments the agent's addRelativeElement tool sends (part_010
\* lines 306-317): the reference element, the position, the spacing and the
\* size of the new rectangle
RelativeArgs ==
    { [relativeToId |-> id, position |-> "right", spacing |-> 50,
       width |-> 200, height |-> 150] : id \in {"a_bg", "b_bg"} }

\* the agent calls the state setter addRelativeElement of excalidrawElements
\* (part_010 lines 320-331): page.tsx registers no setter of that name, so
\* there is no execute to run and the store is left as it is
AddRelativeElement(args) ==
    /\ Mounted
    /\ commands < MaxCommands
    /\ "addRelativeElement" \notin stateSetters
    /\ commands' = commands + 1
    /\ hostEvent' = HostEvent("addRelativeElement", "none", <<args>>,
                              Len(excalidrawElements), 0, lastUpdateRef.source)
    /\ UNCHANGED <<excalidrawElements, reactState, nonArrayStored, lastUpdateRef, now>>

\* React renders the page with the state it holds: the closures of setValue
\* and of the commands now see that collection
Render ==
    /\ Mounted
    /\ excalidrawElements # reactState
    /\ excalidrawElements' = reactState
    /\ UNCHANGED <<reactState, nonArrayStored, lastUpdateRef, now, commands, hostEvent>>

\* time passes; the render scheduled by a state update has run before it does
Tick(d) ==
    /\ Mounted
    /\ excalidrawElements = reactState
    /\ now + d <= MaxNow
    /\ now' = now + d
    /\ UNCHANGED <<excalidrawElements, reactState, nonArrayStored, lastUpdateRef,
                   commands, hostEvent>>

Next ==
    \/ \E newValue \in Snapshots : SetValue(newValue) /\ UNCHANGED <<canvasVars, hashVars, snapVars>>
    \/ SetValueNonArray /\ UNCHANGED <<canvasVars, hashVars, snapVars>>
    \/ \E elementData \in ElementSpecs, genId \in GenIds :
          AddElement(elementData, genId) /\ UNCHANGED <<canvasVars, hashVars, snapVars>>
    \/ \E elementsToAdd \in Batches, genId \in GenIds :
          AddMultipleElements(elementsToAdd, genId) /\ UNCHANGED <<canvasVars, hashVars, snapVars>>
    \/ \E args \in RelativeArgs :
          AddRelativeElement(args) /\ UNCHANGED <<canvasVars, hashVars, snapVars>>
    \/ Render /\ UNCHANGED <<canvasVars, hashVars, snapVars>>
    \/ \E d \in ClockSteps : Tick(d) /\ UNCHANGED <<canvasVars, hashVars, snapVars>>

Spec == Init /\ [][Next]_vars

(***************************************************************************)
(* ExcalidrawCanvas.tsx.  The canvas is mounted by page.tsx with           *)
(* elements = excalidrawElements and onElementsChange = setExcalidrawElements, *)
(* so a forwarded collection becomes the elements prop and re-arms the     *)
(* [elements] effect.                                                      *)
(***************************************************************************)
\* the collections the surface emits and the host sets: up to MaxScene boxes,
\* and the one-box collection after an edit of its box
Scenes == {Coll(n, 1) : n \in 0..MaxScene} \cup {Coll(1, 2)}

TickMs == 10

\* faulty variant: the grace rule fires once, clearing its flag when it swallows
graceFlagAfterSwallow_Once(flag) == FALSE
\* lines 32-35: the early return leaves ignoreFirstEmptyRef as it is
graceFlagAfterSwallow(flag) == flag

\* faulty variant: the cache follows every change of the count
shouldUpdateCache_AnyChange(count, cachedCount) == count # cachedCount

\* the tests that guard both cache updates: newEls.length >
\* lastValidCountRef.current (line 62), currentCount > cachedCount (line 103)
shouldUpdateCache(count, cachedCount) == count > cachedCount

\* faulty variant: the pushing flag is not consulted
handleChangeOutcome_NoPushCheck(newEls) ==
    IF ignoreFirstEmptyRef /\ Len(newEls) = 0 THEN "ignored_first_empty"
    ELSE IF /\ Len(newEls) < lastValidCountRef
            /\ lastValidCountRef > 0
            /\ Len(elementCacheRef) > Len(newEls)
         THEN "restored"
    ELSE "forwarded"

\* handleChange (lines 28-69): the outcome for newEls in the current state
handleChangeOutcome(newEls) ==
    IF ignoreFirstEmptyRef /\ Len(newEls) = 0 THEN "ignored_first_empty"
    ELSE IF pushingSceneRef THEN "ignored_pushing"
    ELSE IF /\ Len(newEls) < lastValidCountRef
            /\ lastValidCountRef > 0
            /\ Len(elementCacheRef) > Len(newEls)
         THEN "restored"
    ELSE "forwarded"

HandleChange(newEls) ==
    LET outcome == handleChangeOutcome(newEls)
    IN  /\ canvasEvent' =
              [CanvasEvent("onChange", newEls, outcome) EXCEPT
                  !.repeat = (canvasEvent.op = "onChange" /\ canvasEvent.arg = newEls)]
        /\ CASE outcome = "ignored_first_empty" ->
                  /\ ignoreFirstEmptyRef' = graceFlagAfterSwallow(ignoreFirstEmptyRef)
                  /\ swallowed' = Min(swallowed + 1, MaxSwallow)
                  /\ UNCHANGED <<elements, elementCacheRef, lastValidCountRef,
                                 effectPending>>
             [] outcome = "ignored_pushing" ->
                  UNCHANGED <<elements, elementCacheRef, lastValidCountRef,
                              effectPending, ignoreFirstEmptyRef, swallowed>>
             [] outcome = "restored" ->
                  /\ elements' = elementCacheRef
                  /\ effectPending' = TRUE
                  /\ UNCHANGED <<elementCacheRef, lastValidCountRef,
                                 ignoreFirstEmptyRef, swallowed>>
             [] outcome = "forwarded" ->
                  /\ IF shouldUpdateCache(Len(newEls), lastValidCountRef)
                     THEN /\ elementCacheRef' = newEls
                          /\ lastValidCountRef' = Len(newEls)
                     ELSE UNCHANGED <<elementCacheRef, lastValidCountRef>>
                  /\ elements' = newEls
                  /\ effectPending' = TRUE
                  /\ UNCHANGED <<ignoreFirstEmptyRef, swallowed>>
        /\ UNCHANGED <<apiReady, pushingSceneRef, prevElementCountRef,
                       microtaskPending, sincePush, pushedNonEmpty>>

\* The surface fires onChange(newEls): a genuine edit (the scene becomes
\* newEls) or a re-render emission that leaves the scene as it is.
SurfaceOnChange(newEls, genuine) ==
    /\ scene' = IF genuine THEN newEls ELSE scene
    /\ HandleChange(newEls)

\* the [elements] effect (lines 75-124)
PushEffect ==
    LET prevCount    == prevElementCountRef
        currentCount == Len(elements)
        cachedCount  == Len(elementCacheRef)
        resetDetected ==
            /\ currentCount < prevCount /\ prevCount > 0
            /\ cachedCount > currentCount /\ cachedCount = prevCount
    IN  /\ effectPending
        /\ ~microtaskPending
        /\ effectPending' = FALSE
        /\ IF resetDetected
           THEN /\ canvasEvent' = CanvasEvent("effect", <<>>, "reset_detected")
                /\ UNCHANGED <<elementCacheRef, lastValidCountRef, prevElementCountRef,
                               pushingSceneRef, scene, microtaskPending, sincePush,
                               pushedNonEmpty>>
           ELSE /\ IF shouldUpdateCache(currentCount, cachedCount)
                   THEN /\ elementCacheRef' = elements
                        /\ lastValidCountRef' = currentCount
                   ELSE UNCHANGED <<elementCacheRef, lastValidCountRef>>
                /\ prevElementCountRef' = currentCount
                /\ IF ~apiReady
                   THEN /\ canvasEvent' = CanvasEvent("effect", <<>>, "api_not_ready")
                        /\ UNCHANGED <<pushingSceneRef, scene, microtaskPending,
                                       sincePush, pushedNonEmpty>>
                   ELSE /\ canvasEvent' = CanvasEvent("effect", <<>>, "pushed")
                        /\ pushingSceneRef' = TRUE
                        /\ scene' = elements
                        /\ microtaskPending' = TRUE
                        /\ sincePush' = 0
                        /\ pushedNonEmpty' =
                              IF Len(elements) > 0 /\ pushedNonEmpty = "no"
                              THEN "inflight" ELSE pushedNonEmpty
        /\ UNCHANGED <<elements, apiReady, ignoreFirstEmptyRef, swallowed>>

\* the queueMicrotask callback of the push (lines 120-123)
Microtask ==
    /\ microtaskPending
    /\ microtaskPending' = FALSE
    /\ pushingSceneRef' = FALSE
    /\ ignoreFirstEmptyRef' = FALSE
    /\ pushedNonEmpty' = IF pushedNonEmpty = "inflight" THEN "done" ELSE pushedNonEmpty
    /\ canvasEvent' = CanvasEvent("microtask", <<>>, "none")
    /\ UNCHANGED <<elements, scene, apiReady, elementCacheRef, lastValidCountRef,
                   prevElementCountRef, effectPending, sincePush, swallowed>>

\* excalidrawAPI={(api) => { apiRef.current = api; }}
ApiReady ==
    /\ ~apiReady
    /\ ~microtaskPending
    /\ apiReady' = TRUE
    /\ canvasEvent' = CanvasEvent("apiReady", <<>>, "none")
    /\ UNCHANGED <<elements, scene, pushingSceneRef, ignoreFirstEmptyRef,
                   elementCacheRef, lastValidCountRef, prevElementCountRef,
                   effectPending, microtaskPending, sincePush, pushedNonEmpty,
                   swallowed>>

\* another writer of the page (setValue, a command, the snapping effect)
\* replaces the host collection
HostSet(c) ==
    /\ ~microtaskPending
    /\ elements' = c
    /\ effectPending' = TRUE
    /\ canvasEvent' = CanvasEvent("hostSet", <<>>, "none")
    /\ UNCHANGED <<scene, apiReady, pushingSceneRef, ignoreFirstEmptyRef,
                   elementCacheRef, lastValidCountRef, prevElementCountRef,
                   microtaskPending, sincePush, pushedNonEmpty, swallowed>>

\* time passes; a queued microtask runs before any time does
CanvasTick ==
    /\ ~microtaskPending
    /\ sincePush < MaxAge
    /\ sincePush' = Min(sincePush + TickMs, MaxAge)
    /\ canvasEvent' = CanvasEvent("tick", <<>>, "none")
    /\ UNCHANGED <<elements, scene, apiReady, pushingSceneRef, ignoreFirstEmptyRef,
                   elementCacheRef, lastValidCountRef, prevElementCountRef,
                   effectPending, microtaskPending, pushedNonEmpty, swallowed>>

NextCanvas ==
    \/ \E newEls \in Scenes, genuine \in BOOLEAN :
          SurfaceOnChange(newEls, genuine) /\ UNCHANGED <<hostVars, hashVars, snapVars>>
    \/ PushEffect /\ UNCHANGED <<hostVars, hashVars, snapVars>>
    \/ Microtask /\ UNCHANGED <<hostVars, hashVars, snapVars>>
    \/ ApiReady /\ UNCHANGED <<hostVars, hashVars, snapVars>>
    \/ \E c \in Scenes : HostSet(c) /\ UNCHANGED <<hostVars, hashVars, snapVars>>
    \/ CanvasTick /\ UNCHANGED <<hostVars, hashVars, snapVars>>

SpecCanvas == Init /\ [][NextCanvas]_vars

(***************************************************************************)
(* The fingerprint-based canvas (getElementsHash, debounced updateScene).  *)
(* It uses elements, scene, apiReady, ignoreFirstEmptyRef, effectPending   *)
(* and canvasEvent as the canvas above does.                               *)
(***************************************************************************)
\* elements.map(el => `${el.id}:${el.type}:${el.x}:${el.y}:${el.version || 0}`).join('|')
\* as the sequence of the joined parts
getElementsHash(els) ==
    [i \in 1..Len(els) |->
        <<els[i].id, els[i].type, els[i].x, els[i].y, OrElse(els[i].version, 0)>>]

\* the collections the surface emits and the host sets: up to MaxHashScene
\* boxes, and the one-box collection after an edit of its box
HashScenes == {Coll(n, 1) : n \in 0..MaxHashScene} \cup {Coll(1, 2)}

DebounceMs    == 10
ClearUpdateMs == 50

\* faulty variant: the comparison with the last received fingerprint is missing
hashHandleChangeOutcome_NoReceivedCheck(newEls, grace, pushedHash, receivedHash, updating) ==
    IF grace /\ Len(newEls) = 0 THEN "ignored_first_empty"
    ELSE IF getElementsHash(newEls) = pushedHash THEN "same_as_pushed"
    ELSE IF updating THEN "ignored_updating"
    ELSE "forwarded"

\* handleChange (lines 45-89): the outcome for newEls
hashHandleChangeOutcome(newEls, grace, pushedHash, receivedHash, updating) ==
    IF grace /\ Len(newEls) = 0 THEN "ignored_first_empty"
    ELSE IF getElementsHash(newEls) = pushedHash THEN "same_as_pushed"
    ELSE IF getElementsHash(newEls) = receivedHash THEN "same_as_received"
    ELSE IF updating THEN "ignored_updating"
    ELSE "forwarded"

HashHandleChange(newEls) ==
    LET outcome == hashHandleChangeOutcome(newEls, ignoreFirstEmptyRef,
                                           lastPushedHashRef, lastReceivedHashRef,
                                           isUpdatingRef)
    IN  /\ canvasEvent' = CanvasEvent("onChange", newEls, outcome)
        /\ IF outcome = "ignored_first_empty"
           THEN UNCHANGED <<ignoreFirstEmptyRef, lastReceivedHashRef, elements,
                            effectPending>>
           ELSE /\ ignoreFirstEmptyRef' = FALSE
                /\ IF outcome = "forwarded"
                   THEN /\ lastReceivedHashRef' = getElementsHash(newEls)
                        /\ elements' = newEls
                        /\ effectPending' = TRUE
                   ELSE UNCHANGED <<lastReceivedHashRef, elements, effectPending>>
        /\ UNCHANGED <<apiReady, sincePush, swallowed, lastPushedHashRef,
                       isUpdatingRef, debounceTimer, clearTimer>>

HashSurfaceOnChange(newEls, genuine) ==
    /\ scene' = IF genuine THEN newEls ELSE scene
    /\ HashHandleChange(newEls)

\* The timeouts of debouncedUpdateScene.  debounceTimer is the timeout that
\* updateSceneTimeoutRef refers to (armed: it has not fired), unreferenced are
\* pending timeouts the ref no longer refers to, and replaced tells whether
\* setting the timeout cleared a pending one.
Timeout(due, els) == [due |-> due, elements |-> els]

\* faulty variant: the pending timeout is not cleared before the new one is set
debouncedUpdateScene_NoClear(timer, elementsToUpdate) ==
    [armed |-> TRUE, due |-> DebounceMs, elements |-> elementsToUpdate,
     unreferenced |-> IF timer.armed
                      THEN Append(timer.unreferenced, Timeout(timer.due, timer.elements))
                      ELSE timer.unreferenced,
     replaced |-> FALSE]

\* debouncedUpdateScene (lines 92-97): clearTimeout(updateSceneTimeoutRef.current)
\* cancels the timeout the ref refers to, then the new timeout is set
debouncedUpdateScene(timer, elementsToUpdate) ==
    [armed |-> TRUE, due |-> DebounceMs, elements |-> elementsToUpdate,
     unreferenced |-> timer.unreferenced,
     replaced |-> timer.armed]

\* the pending timeouts, the referenced one first
PendingTimeouts(timer) ==
    (IF timer.armed THEN <<Timeout(timer.due, timer.elements)>> ELSE <<>>)
    \o timer.unreferenced

\* timer after its pending timeout number k has fired
AfterFiring(timer, k) ==
    IF timer.armed /\ k = 1
    THEN [timer EXCEPT !.armed = FALSE, !.due = 0, !.elements = <<>>]
    ELSE [timer EXCEPT !.unreferenced =
            [i \in 1..(Len(timer.unreferenced) - 1) |->
                LET u == k - (IF timer.armed THEN 1 ELSE 0)
                IN  IF i < u THEN timer.unreferenced[i] ELSE timer.unreferenced[i + 1]]]

\* the [elements] effect (lines 125-155) with debouncedUpdateScene (lines 92-122):
\* a pending timeout is cleared and a new one is set
HashEffect ==
    LET currentHash == getElementsHash(elements)
        outcome == IF ~apiReady THEN "api_not_ready"
                   ELSE IF currentHash = lastPushedHashRef THEN "skip_same_as_pushed"
                   ELSE IF currentHash = lastReceivedHashRef THEN "skip_same_as_received"
                   ELSE "scheduled"
    IN  /\ effectPending
        /\ effectPending' = FALSE
        /\ canvasEvent' = CanvasEvent("effect", <<>>, outcome)
        /\ debounceTimer' = IF outcome = "scheduled"
                            THEN debouncedUpdateScene(debounceTimer, elements)
                            ELSE debounceTimer
        /\ UNCHANGED <<elements, scene, apiReady, ignoreFirstEmptyRef, sincePush,
                       swallowed, lastPushedHashRef, lastReceivedHashRef,
                       isUpdatingRef, clearTimer>>

\* faulty variant: the timeout callback does not look at isUpdatingRef
debounceOutcome_NoUpdatingCheck(api, updating, newHash, pushedHash) ==
    IF ~api THEN "dropped_updating"
    ELSE IF newHash # pushedHash THEN "pushed"
    ELSE "skip_no_changes"

\* what the timeout callback does (lines 98-118)
debounceOutcome(api, updating, newHash, pushedHash) ==
    IF ~api \/ updating THEN "dropped_updating"
    ELSE IF newHash # pushedHash THEN "pushed"
    ELSE "skip_no_changes"

\* the debounce timeout fires (lines 97-121)
DebounceFire ==
    \E k \in 1..Len(PendingTimeouts(debounceTimer)) :
    LET elementsToUpdate == PendingTimeouts(debounceTimer)[k].elements
        newHash == getElementsHash(elementsToUpdate)
        outcome == debounceOutcome(apiReady, isUpdatingRef, newHash, lastPushedHashRef)
    IN  /\ PendingTimeouts(debounceTimer)[k].due = 0
        /\ debounceTimer' = AfterFiring(debounceTimer, k)
        /\ canvasEvent' = CanvasEvent("debounce", <<>>, outcome)
        /\ IF outcome = "pushed"
           THEN /\ isUpdatingRef' = TRUE
                /\ lastPushedHashRef' = newHash
                /\ scene' = elementsToUpdate
                /\ clearTimer' = ClearUpdateMs
           ELSE UNCHANGED <<isUpdatingRef, lastPushedHashRef, scene, clearTimer>>
        /\ UNCHANGED <<elements, apiReady, ignoreFirstEmptyRef, effectPending,
                       sincePush, swallowed, lastReceivedHashRef>>

\* setTimeout(() => { isUpdatingRef.current = false }, 50) fires
ClearUpdating ==
    /\ clearTimer = 0
    /\ clearTimer' = NoTimer
    /\ isUpdatingRef' = FALSE
    /\ canvasEvent' = CanvasEvent("clearUpdating", <<>>, "none")
    /\ UNCHANGED <<elements, scene, apiReady, ignoreFirstEmptyRef, effectPending,
                   sincePush, swallowed, lastPushedHashRef, lastReceivedHashRef,
                   debounceTimer>>

\* time passes; a timeout fires at or after its due time
HashTick ==
    /\ \/ \E k \in 1..Len(PendingTimeouts(debounceTimer)) :
              PendingTimeouts(debounceTimer)[k].due > 0
       \/ clearTimer > 0
    /\ debounceTimer' =
          [debounceTimer EXCEPT
              !.due = IF debounceTimer.armed THEN Max(@ - TickMs, 0) ELSE @,
              !.unreferenced = [i \in 1..Len(@) |->
                                   Timeout(Max(@[i].due - TickMs, 0), @[i].elements)]]
    /\ clearTimer' = IF clearTimer > 0 THEN Max(clearTimer - TickMs, 0) ELSE clearTimer
    /\ canvasEvent' = CanvasEvent("tick", <<>>, "none")
    /\ UNCHANGED <<elements, scene, apiReady, ignoreFirstEmptyRef, effectPending,
                   sincePush, swallowed, lastPushedHashRef, lastReceivedHashRef,
                   isUpdatingRef>>

nuclearVars == <<pushingSceneRef, elementCacheRef, lastValidCountRef,
                 prevElementCountRef, microtaskPending, pushedNonEmpty>>

NextHash ==
    \/ \E newEls \in HashScenes, genuine \in BOOLEAN :
          HashSurfaceOnChange(newEls, genuine) /\ UNCHANGED <<hostVars, nuclearVars, snapVars>>
    \/ HashEffect /\ UNCHANGED <<hostVars, nuclearVars, snapVars>>
    \/ DebounceFire /\ UNCHANGED <<hostVars, nuclearVars, snapVars>>
    \/ ClearUpdating /\ UNCHANGED <<hostVars, nuclearVars, snapVars>>
    \/ ApiReady /\ UNCHANGED <<hostVars, hashVars, snapVars>>
    \/ \E c \in HashScenes : HostSet(c) /\ UNCHANGED <<hostVars, hashVars, snapVars>>
    \/ HashTick /\ UNCHANGED <<hostVars, nuclearVars, snapVars>>

SpecHash == Init /\ [][NextHash]_vars

\* SpecHash with its timers: time passes while a timeout is pending, and the
\* setTimeout(..., 50) callback runs once it is due
SpecHashFair ==
    /\ SpecHash
    /\ WF_vars(HashTick /\ UNCHANGED <<hostVars, nuclearVars, snapVars>>)
    /\ WF_vars(ClearUpdating /\ UNCHANGED <<hostVars, nuclearVars, snapVars>>)

(***************************************************************************)
(* page.tsx: the [excalidrawElements] effect (lines 35-305): arrows are    *)
(* snapped to the edge midpoints of the nearest rectangles and bound to    *)
(* them, then duplicate connections are eliminated.  Box dimensions in the *)
(* model are even, so every centre and edge midpoint is an integer.        *)
(***************************************************************************)
IsArrow(el)     == el.type = "arrow"
IsRectangle(el) == el.type = "rectangle"

\* 4 * (squared distance from (x, y) to the centre of rect); Math.sqrt is
\* monotonic, so comparing these compares the distances
CenterDistance(rect, x, y) ==
    (2 * x - (2 * rect.x + rect.width)) * (2 * x - (2 * rect.x + rect.width))
    + (2 * y - (2 * rect.y + rect.height)) * (2 * y - (2 * rect.y + rect.height))

\* index in rectangles of the first rectangle at the least distance, skipping
\* those with id excludeId; 0 when there is none
findClosestRectangle(rectangles, x, y, excludeId) ==
    LET cand == {i \in 1..Len(rectangles) :
                    excludeId = undefinedId \/ rectangles[i].id # excludeId}
        d(i) == CenterDistance(rectangles[i], x, y)
    IN  IF cand = {} THEN 0
        ELSE CHOOSE i \in cand :
                \A j \in cand : d(i) < d(j) \/ (d(i) = d(j) /\ i <= j)

\* left, right, top, bottom edge midpoints
getAllEdgePoints(rect) ==
    LET centerX == rect.x + rect.width \div 2
        centerY == rect.y + rect.height \div 2
    IN  << [x |-> rect.x, y |-> centerY, side |-> "left"],
           [x |-> rect.x + rect.width, y |-> centerY, side |-> "right"],
           [x |-> centerX, y |-> rect.y, side |-> "top"],
           [x |-> centerX, y |-> rect.y + rect.height, side |-> "bottom"] >>

\* squared length of the arrow from startEdge to endEdge
EdgeDistance(startEdge, endEdge) ==
    (endEdge.x - startEdge.x) * (endEdge.x - startEdge.x)
    + (endEdge.y - startEdge.y) * (endEdge.y - startEdge.y)

\* faulty variant: the loop never replaces its initial pair (left, left)
shortestEdgePair_First(startRect, endRect) == <<1, 1>>

\* the nested loop of lines 173-185: <<i, j>> is the first pair, start edge
\* outermost, at the least distance (the comparison is strict)
shortestEdgePair(startRect, endRect) ==
    LET s == getAllEdgePoints(startRect)
        e == getAllEdgePoints(endRect)
        d(p) == EdgeDistance(s[p[1]], e[p[2]])
        before(p, q) == p[1] < q[1] \/ (p[1] = q[1] /\ p[2] <= q[2])
        pairs == (1..4) \X (1..4)
    IN  CHOOSE p \in pairs :
            \A q \in pairs : d(p) < d(q) \/ (d(p) = d(q) /\ before(p, q))

\* calculateBindingFocus (lines 101-115) under the clamp of lines 236 and 241
calculateBindingFocus(rect, arrowEnd) ==
    LET dx2 == 2 * arrowEnd.x - (2 * rect.x + rect.width)
        dy2 == 2 * arrowEnd.y - (2 * rect.y + rect.height)
    IN  IF Abs(dx2) * rect.height > Abs(dy2) * rect.width
        THEN ClampHalf(dy2, 2 * rect.height)
        ELSE ClampHalf(dx2, 2 * rect.width)

tolerance == 2

\* lines 192-249: the arrow element laid between the two edge midpoints, or
\* element itself when it is within the tolerance already; changed tells
\* whether hasChanges was set
snapTo(element, startRect, endRect, startEdgePoint, endEdgePoint) ==
    LET newArrowX == startEdgePoint.x
        newArrowY == startEdgePoint.y
        newEndX   == endEdgePoint.x - startEdgePoint.x
        newEndY   == endEdgePoint.y - startEdgePoint.y
        needsUpdate ==
            \/ Abs(element.x - newArrowX) > tolerance
            \/ Abs(element.y - newArrowY) > tolerance
            \/ Abs(element.points[2][1] - newEndX) > tolerance
            \/ Abs(element.points[2][2] - newEndY) > tolerance
        updatedArrow ==
            [element EXCEPT
                !.x = newArrowX, !.y = newArrowY,
                !.width = Abs(newEndX), !.height = Abs(newEndY),
                !.points = << <<0, 0>>, <<newEndX, newEndY>> >>,
                !.startBinding = [elementId |-> startRect.id,
                                  focus |-> calculateBindingFocus(startRect, endEdgePoint),
                                  gap |-> 4],
                !.endBinding = [elementId |-> endRect.id,
                                focus |-> calculateBindingFocus(endRect, startEdgePoint),
                                gap |-> 4],
                !.version = OrElse(element.version, 1) + 1]
    IN  IF needsUpdate THEN [element |-> updatedArrow, changed |-> TRUE]
        ELSE [element |-> element, changed |-> FALSE]

\* lines 153-190: the edge midpoints chosen for the two rectangles
snapBetween(element, startRect, endRect) ==
    LET best == shortestEdgePair(startRect, endRect)
    IN  snapTo(element, startRect, endRect,
               getAllEdgePoints(startRect)[best[1]],
               getAllEdgePoints(endRect)[best[2]])

\* lines 139-146: the indices in rectangles of startRect and endRect (0: none)
snapTargets(element, rectangles) ==
    LET si == findClosestRectangle(rectangles,
                                   element.x + element.points[1][1],
                                   element.y + element.points[1][2], undefinedId)
    IN  [si |-> si,
         ei |-> findClosestRectangle(rectangles,
                                     element.x + element.points[2][1],
                                     element.y + element.points[2][2],
                                     IF si = 0 THEN undefinedId ELSE rectangles[si].id)]

\* the map callback of lines 118-250 for one element
snapElement(element, rectangles) ==
    IF ~IsArrow(element) \/ Len(element.points) < 2
    THEN [element |-> element, changed |-> FALSE]
    ELSE LET t == snapTargets(element, rectangles)
         IN  IF t.si = 0 \/ t.ei = 0
             THEN [element |-> element, changed |-> FALSE]
             ELSE snapBetween(element, rectangles[t.si], rectangles[t.ei])

\* faulty variant: the connection key keeps the direction of the arrow
connectionKey_Directed(startRectId, endRectId) == <<startRectId, endRectId>>

\* [startRectId, endRectId].sort().join('->'): equal for two arrows exactly
\* when they connect the same unordered pair of ids
connectionKey(startRectId, endRectId) == {startRectId, endRectId}

\* faulty variant: only an arrow with neither binding is kept unexamined
lacksBinding_Both(startRectId, endRectId) ==
    startRectId = undefinedId /\ endRectId = undefinedId

\* !startRectId || !endRectId (line 269)
lacksBinding(startRectId, endRectId) ==
    startRectId = undefinedId \/ endRectId = undefinedId

\* the loop of lines 264-290 from its state (the keys in connectionMap)
RECURSIVE arrowsToKeep(_, _)
arrowsToKeep(arrowElements, keys) ==
    IF arrowElements = <<>> THEN <<>>
    ELSE LET arrow       == Head(arrowElements)
             startRectId == arrow.startBinding.elementId
             endRectId   == arrow.endBinding.elementId
             key         == connectionKey(startRectId, endRectId)
         IN  IF lacksBinding(startRectId, endRectId)
             THEN <<arrow>> \o arrowsToKeep(Tail(arrowElements), keys)
             ELSE IF key \in keys
             THEN arrowsToKeep(Tail(arrowElements), keys)
             ELSE <<arrow>> \o arrowsToKeep(Tail(arrowElements), keys \cup {key})

\* faulty variant: the result is the kept arrows alone
deduplicatedElements_ArrowsOnly(updatedElements) ==
    LET arrowElements == SelectSeq(updatedElements, IsArrow)
    IN  IF Len(arrowElements) <= 1 THEN updatedElements
        ELSE arrowsToKeep(arrowElements, {})

\* lines 252-297
deduplicatedElements(updatedElements) ==
    LET nonArrowElements == SelectSeq(updatedElements, LAMBDA el : ~IsArrow(el))
        arrowElements    == SelectSeq(updatedElements, IsArrow)
    IN  IF Len(arrowElements) <= 1 THEN updatedElements
        ELSE nonArrowElements \o arrowsToKeep(arrowElements, {})

\* the whole effect for the collection els: what it computed (updated: the
\* collection after snapping, result: after duplicate elimination), whether
\* it got past the early returns (ran) and whether hasChanges was set
snappingEffect(els) ==
    LET rectangles == SelectSeq(els, IsRectangle)
        snapped    == [i \in 1..Len(els) |-> snapElement(els[i], rectangles)]
        updatedElements == [i \in 1..Len(els) |-> snapped[i].element]
        result     == deduplicatedElements(updatedElements)
        hasChanges == \/ \E i \in 1..Len(els) : snapped[i].changed
                      \/ Len(result) < Len(updatedElements)
    IN  IF \/ Len(els) = 0
           \/ Len(SelectSeq(els, IsArrow)) = 0
           \/ Len(rectangles) = 0
        THEN SnapEvent(FALSE, FALSE, els, els)
        ELSE SnapEvent(TRUE, hasChanges, updatedElements, result)

(***************************************************************************)
(* The host store with its snapping effect (specification SpecSnap).  The  *)
(* diagrams are what the user draws on the surface: boxes, and arrows      *)
(* between the first two boxes, unbound or bound by the surface (which     *)
(* lists a bound arrow in the boundElements of its boxes).                 *)
(***************************************************************************)
Box(id, x, y, w, h) == Element(id, "rectangle", x, y, w, h, 1)

\* the tombstone of el: the element the surface keeps, flagged, after the
\* user deleted it
Deleted(el) == [el EXCEPT !.isDeleted = TRUE]

Layouts ==
    { << Box("a_bg", 0, 0, 100, 100), Box("b_bg", 300, 0, 100, 100) >>,
      << Box("a_bg", 0, 0, 100, 100), Box("b_bg", 40, 260, 200, 60) >>,
      << Box("a_bg", 0, 0, 100, 100), Box("b_bg", 300, 300, 100, 100) >>,
      << Box("a_bg", 0, 0, 100, 100), Box("b_bg", 300, 0, 100, 100),
         Box("c", 120, 20, 40, 40) >> }

\* layouts drawn with at most one arrow: with a deleted box, with a box of
\* no extent, with a box between the two tables, and with a first table
\* over the whole area the smart positioning of addElement tries
SingleArrowLayouts ==
    { << Box("a_bg", 0, 0, 100, 100), Box("b_bg", 300, 0, 100, 100),
         Deleted(Box("d", 120, 20, 40, 40)) >>,
      << Box("a_bg", 0, 0, 100, 100), Box("b_bg", 50, 300, 0, 0) >>,
      << Box("a_bg", 80, 188, 20, 20), Box("b_bg", 190, 90, 20, 20),
         Box("c", 90, 140, 20, 120) >>,
      << Box("a_bg", 0, 0, 2000, 2000), Box("b_bg", 2100, 900, 100, 200) >> }

ArrowIds == <<"k1", "k2", "k3">>

Binding(id) == [elementId |-> id, focus |-> <<0, 1>>, gap |-> 4]

\* an arrow from the point (x, y) by (dx, dy)
Arrow(id, x, y, dx, dy, startBinding, endBinding) ==
    [Element(id, "arrow", x, y, Abs(dx), Abs(dy), 1) EXCEPT
        !.points = << <<0, 0>>, <<dx, dy>> >>,
        !.startBinding = startBinding,
        !.endBinding = endBinding]

\* an arrow drawn from the centre of box from to the centre of box to
CentreArrow(id, from, to, bound) ==
    LET x == from.x + from.width \div 2
        y == from.y + from.height \div 2
    IN  Arrow(id, x, y, to.x + to.width \div 2 - x, to.y + to.height \div 2 - y,
              IF bound THEN Binding(from.id) ELSE NullBinding,
              IF bound THEN Binding(to.id) ELSE NullBinding)

\* the arrows a user may draw over boxes as arrow number n: in either
\* direction, bound or not, and one a pixel off the right edge of the first
\* box, unbound or bound at its start only
ArrowChoices(boxes, n) ==
    { CentreArrow(ArrowIds[n], boxes[1], boxes[2], FALSE),
      CentreArrow(ArrowIds[n], boxes[2], boxes[1], FALSE),
      CentreArrow(ArrowIds[n], boxes[1], boxes[2], TRUE),
      CentreArrow(ArrowIds[n], boxes[2], boxes[1], TRUE),
      Arrow(ArrowIds[n], boxes[1].x + boxes[1].width + 1,
            boxes[1].y + boxes[1].height \div 2, 198, 1, NullBinding, NullBinding),
      Arrow(ArrowIds[n], boxes[1].x + boxes[1].width + 1,
            boxes[1].y + boxes[1].height \div 2, 198, 1,
            Binding(boxes[1].id), NullBinding) }

RECURSIVE ArrowLists(_, _)
ArrowLists(boxes, n) ==
    IF n = 0 THEN { <<>> }
    ELSE LET shorter == ArrowLists(boxes, n - 1)
         IN  shorter \cup
             { Append(l, a) : l \in {k \in shorter : Len(k) = n - 1},
                              a \in ArrowChoices(boxes, n) }

\* the ids of the arrows of arrows that are bound to the box id, in order
RECURSIVE BoundArrowIds(_, _)
BoundArrowIds(arrows, id) ==
    IF arrows = <<>> THEN <<>>
    ELSE LET a == Head(arrows)
         IN  (IF a.startBinding.elementId = id \/ a.endBinding.elementId = id
              THEN <<a.id>> ELSE <<>>) \o BoundArrowIds(Tail(arrows), id)

Diagram(boxes, arrows) ==
    [i \in 1..Len(boxes) |->
        [boxes[i] EXCEPT !.boundElements = BoundArrowIds(arrows, boxes[i].id)]]
    \o arrows

FirstLayout == << Box("a_bg", 0, 0, 100, 100), Box("b_bg", 300, 0, 100, 100) >>

\* the first layout drawn in another order: the first arrow, the first box,
\* a text label, the second box, the other arrows
Interleaved(boxes, arrows) ==
    LET d == Diagram(boxes, arrows)
    IN  << arrows[1], d[1], Element("t1", "text", 10, 10, 40, 20, 1), d[2] >>
        \o Tail(arrows)

Diagrams ==
    UNION { { Diagram(boxes, arrows) : arrows \in ArrowLists(boxes, MaxArrows) } :
            boxes \in Layouts }
    \cup UNION { { Diagram(boxes, arrows) : arrows \in ArrowLists(boxes, 1) } :
                 boxes \in SingleArrowLayouts }
    \cup { Interleaved(FirstLayout, arrows) :
               arrows \in { l \in ArrowLists(FirstLayout, MaxArrows) : Len(l) = 2 } }

\* the arrows the agent adds: from inside the first table to inside the
\* second of the first layout, the same one with generated id, and one
\* given neither position nor points
SnapSpecs ==
    { ElementData("k9", "arrow", 50, 50, undefined, undefined, undefined,
                  << <<0, 0>>, <<300, 0>> >>),
      ElementData(undefinedId, "arrow", 50, 50, undefined, undefined, undefined,
                  << <<0, 0>>, <<300, 0>> >>),
      ElementData("k8", "arrow", undefined, undefined, undefined, undefined,
                  undefined, undefinedPoints) }

\* the user draws the diagram c on the empty canvas and the surface forwards
\* it: onElementsChange={setExcalidrawElements}
SurfaceForward(c) ==
    /\ Mounted
    /\ excalidrawElements = <<>>
    /\ reactState = <<>>
    /\ reactState' = c
    /\ UNCHANGED <<excalidrawElements, nonArrayStored, lastUpdateRef, now, commands,
                   hostEvent, snapVars>>

\* React renders the page; the [excalidrawElements] effect is due again
SnapRender ==
    /\ Render
    /\ snapPending' = TRUE
    /\ UNCHANGED snapEvent

\* the [excalidrawElements] effect runs for the collection of this render
SnappingEffect ==
    LET r == snappingEffect(excalidrawElements)
    IN  /\ Mounted
        /\ snapPending
        /\ \A i \in 1..Len(excalidrawElements) :
              excalidrawElements[i].version < MaxVersion
        /\ snapPending' = FALSE
        /\ snapEvent' = r
        /\ reactState' = IF r.changed THEN r.result ELSE reactState
        /\ UNCHANGED <<excalidrawElements, nonArrayStored, lastUpdateRef, now,
                       commands, hostEvent>>

NextSnap ==
    \/ \E c \in Diagrams : SurfaceForward(c) /\ UNCHANGED <<canvasVars, hashVars>>
    \/ \E elementData \in SnapSpecs, genId \in GenIds :
          /\ AddElementUpTo(MaxSnapCommands, elementData, genId)
          /\ UNCHANGED <<canvasVars, hashVars, snapVars>>
    \/ SnapRender /\ UNCHANGED <<canvasVars, hashVars>>
    \/ SnappingEffect /\ UNCHANGED <<canvasVars, hashVars>>

SpecSnap == Init /\ [][NextSnap]_vars

(***************************************************************************)
(* Properties of the host store (specification Spec).                      *)
(***************************************************************************)
\* a step in which setValue ran (directly or as a command's setValueFunc)
SetValueStep == hostEvent' # hostEvent /\ hostEvent'.decision # "none"
Offered      == hostEvent'.arg
Elapsed      == now - lastUpdateRef.timestamp
\* ... and stored the value it was offered
Accepted     == SetValueStep /\ hostEvent'.decision # "blocked"

C2_LateReductionRejected ==
    [][(/\ SetValueStep
        /\ 0 < Len(Offered)
        /\ Len(Offered) < Len(reactState)
        /\ Elapsed >= 2000) =>
          /\ hostEvent'.decision = "blocked"
          /\ reactState' = reactState]_vars

\* a one-element drop was blocked exactly 2000 ms after the last mutation
C2_Witness ==
    /\ hostEvent.op = "setValue"
    /\ hostEvent.decision = "blocked"
    /\ hostEvent.elapsed = 2000
    /\ Len(hostEvent.arg) > 0
    /\ hostEvent.from - Len(hostEvent.arg) = 1
    /\ Len(reactState) = hostEvent.from

\* C3: a non-empty size-reducing snapshot that reaches setValue within the
\* recency window right after an agent-issued addElement/addMultipleElements
\* is accepted even when the drop is at or above the threshold.
C3_ReductionAfterAgentCommandAccepted ==
    [][(/\ hostEvent.op \in {"addElement", "addMultipleElements"}
        /\ hostEvent.decision # "none"
        /\ hostEvent'.op = "setValue"
        /\ 0 < Len(Offered)
        /\ Len(Offered) < Len(reactState)
        /\ Elapsed < 2000) =>
          reactState' = Offered]_vars

C12_EvaluatedAgainstCurrent ==
    [][SetValueStep => hostEvent'.from = Len(reactState)]_vars

\* C15: a value that is not an array, offered to setValue, is rejected: the
\* prior collection is kept and the store never holds a non-collection value.
C15_MalformedRejected ==
    [][(hostEvent' # hostEvent /\ hostEvent'.op = "setValueNonArray") =>
          /\ hostEvent'.decision = "blocked"
          /\ reactState' = reactState
          /\ ~nonArrayStored']_vars

(***************************************************************************)
(* Properties of the canvas (specification SpecCanvas).                    *)
(***************************************************************************)
OnChangeStep   == canvasEvent'.op = "onChange"
OnChangeOf(c)  == OnChangeStep /\ canvasEvent'.arg = c
NotForwarded   == /\ elements' = elements
                  /\ effectPending' = effectPending
                  /\ canvasEvent'.outcome \in {"ignored_first_empty", "ignored_pushing"}

\* C5: from the start of a push until the pushing flag is cleared, no
\* surface snapshot is forwarded to the host (onElementsChange is not called).
C5_FeedbackSuppression ==
    [][(pushingSceneRef /\ OnChangeStep) => NotForwarded]_vars

\* a non-empty snapshot that differs from the host collection arrived while
\* the push was in flight and was dropped
C5_Witness ==
    /\ pushingSceneRef
    /\ canvasEvent.op = "onChange"
    /\ canvasEvent.outcome = "ignored_pushing"
    /\ Len(canvasEvent.arg) > 0
    /\ canvasEvent.arg # elements

\* C6: the host holds 1 box, that collection is the one last pushed and the
\* surface shows it; an empty snapshot emitted within 10 ms of the push is
\* rejected and the host still holds the 1-box collection.
C6_EchoRejection ==
    [][(/\ Len(elements) = 1
        /\ elements[1].type = "rectangle"
        /\ scene = elements
        /\ ~effectPending
        /\ sincePush < 10
        /\ OnChangeOf(<<>>)) =>
          /\ elements' = elements
          /\ canvasEvent'.outcome # "forwarded"]_vars

\* C7: the grace rule swallows exactly one zero-length snapshot; a second
\* empty snapshot is not swallowed by it.
C7_GraceRuleOnce ==
    [][(swallowed >= 1 /\ OnChangeOf(<<>>)) =>
          canvasEvent'.outcome # "ignored_first_empty"]_vars

\* C8: once a push of a non-empty snapshot has completed (and no push is in
\* flight), an empty surface snapshot is forwarded to the host and the host
\* collection becomes empty.
C8_EmptyAfterPushIsClear ==
    [][(/\ pushedNonEmpty = "done"
        /\ ~pushingSceneRef
        /\ OnChangeOf(<<>>)) =>
          /\ canvasEvent'.outcome = "forwarded"
          /\ elements' = <<>>]_vars

\* C10: offering the same collection X to handleChange a second time, right
\* after the first, leaves the stored collection as the first call left it:
\* same elements, hence same fingerprint and no version bumped.
C10_ReconcileIdempotent ==
    [][(canvasEvent.op = "onChange" /\ OnChangeOf(canvasEvent.arg)) =>
          /\ elements' = elements
          /\ \A i \in 1..Len(elements) : elements'[i].version = elements[i].version]_vars

\* a non-empty collection was offered twice in a row and forwarded
C10_Witness ==
    /\ canvasEvent.op = "onChange"
    /\ canvasEvent.repeat
    /\ canvasEvent.outcome = "forwarded"
    /\ Len(canvasEvent.arg) > 0
    /\ elements = canvasEvent.arg

\* a step in which the [elements] effect ran
EffectStep == effectPending /\ canvasEvent'.op = "effect"

\* C13: every collection accepted into the host store is pushed out once the
\* surface API is ready: a run of the [elements] effect with the API ready
\* leaves the surface's scene equal to the host collection.
C13_AcceptedIsPushed ==
    [][(EffectStep /\ apiReady) => scene' = elements]_vars

\* C14: when handleChange rejects a size-reducing surface snapshot, the host
\* collection afterwards is, element for element, the one it held before.
C14_RejectionRetainsPrior ==
    [][(OnChangeStep /\ canvasEvent'.outcome = "restored") =>
          elements' = elements]_vars

\* C16: the host collection's size never decreases except through a full
\* clear (the new collection is empty), a decision of a host-side writer, or
\* a surface snapshot that was accepted (the user's delete).
C16_NoSilentLoss ==
    [][(Len(elements') < Len(elements)) =>
          \/ elements' = <<>>
          \/ canvasEvent'.op = "hostSet"
          \/ canvasEvent'.outcome = "forwarded"]_vars

(***************************************************************************)
(* Properties of the fingerprint-based canvas (specification SpecHash).    *)
(***************************************************************************)
\* the fingerprint as the claim defines it: per element id, type, x, y, version
Fingerprint(els) ==
    [i \in 1..Len(els) |->
        <<els[i].id, els[i].type, els[i].x, els[i].y, els[i].version>>]

FingerprintKnown ==
    /\ OnChangeStep
    /\ \/ Fingerprint(canvasEvent'.arg) = lastPushedHashRef
       \/ Fingerprint(canvasEvent'.arg) = lastReceivedHashRef

DroppedSilently ==
    /\ elements' = elements
    /\ effectPending' = effectPending
    /\ lastReceivedHashRef' = lastReceivedHashRef
    /\ lastPushedHashRef' = lastPushedHashRef
    /\ isUpdatingRef' = isUpdatingRef
    /\ debounceTimer' = debounceTimer

C11_OutboundLastWriteWins ==
    [][(/\ debounceTimer.armed
        /\ ~debounceTimer'.armed
        /\ apiReady
        /\ getElementsHash(debounceTimer.elements) # lastPushedHashRef) =>
          scene' = debounceTimer.elements]_vars

(***************************************************************************)
(* Properties of the snapping effect (specification SpecSnap).             *)
(***************************************************************************)
\* a step in which the effect ran / ran and stored its result / a command ran
PassStep   == snapPending /\ ~snapPending'
PassStored == PassStep /\ snapEvent'.changed
AddStep    == commands' = commands + 1

Lists(seq, id) == \E k \in 1..Len(seq) : seq[k] = id
HasId(els, id) == \E j \in 1..Len(els) : els[j].id = id

\* every binding of every arrow of els names an element of els whose
\* boundElements lists the arrow
BindingSymmetric(els) ==
    \A i \in 1..Len(els) :
        IsArrow(els[i]) =>
            \A b \in {els[i].startBinding, els[i].endBinding} :
                b.elementId # undefinedId =>
                    \E j \in 1..Len(els) :
                        /\ els[j].id = b.elementId
                        /\ Lists(els[j].boundElements, els[i].id)

\* C17: in every collection stored by addElement or by the snapping and
\* duplicate-elimination effect, each connector whose start or end binding
\* names T has T in the collection and T's boundElements lists the connector.
C17_BindingSymmetry ==
    [][(PassStored \/ AddStep) => BindingSymmetric(reactState')]_vars

\* C18: when duplicate elimination removes a connector, no element of the
\* stored collection lists the removed connector in its boundElements.
C18_RemovedConnectorUnlinked ==
    [][PassStored =>
          \A i \in 1..Len(snapEvent'.updated) :
              (/\ IsArrow(snapEvent'.updated[i])
               /\ ~HasId(reactState', snapEvent'.updated[i].id)) =>
                  \A j \in 1..Len(reactState') :
                      ~Lists(reactState'[j].boundElements,
                             snapEvent'.updated[i].id)]_vars

\* the arrows of els fully bound to the unordered pair of ids pair
FullyBound(el) ==
    /\ IsArrow(el)
    /\ el.startBinding.elementId # undefinedId
    /\ el.endBinding.elementId # undefinedId
BoundPair(el) == {el.startBinding.elementId, el.endBinding.elementId}
BoundIndices(els, pair) ==
    {i \in 1..Len(els) : FullyBound(els[i]) /\ BoundPair(els[i]) = pair}

\* C19: given N >= 2 connectors fully bound to the same unordered pair of
\* boxes, in either direction, duplicate elimination leaves exactly one of
\* them: the first in collection order; that collection is the one stored.
C19_DedupConvergence ==
    [][(PassStep /\ snapEvent'.ran) =>
          \A i \in 1..Len(snapEvent'.updated) :
              (/\ FullyBound(snapEvent'.updated[i])
               /\ Cardinality(BoundIndices(snapEvent'.updated,
                                           BoundPair(snapEvent'.updated[i]))) >= 2) =>
                  /\ reactState' = snapEvent'.result
                  /\ Cardinality(BoundIndices(reactState',
                                              BoundPair(snapEvent'.updated[i]))) = 1
                  /\ \A j \in BoundIndices(reactState', BoundPair(snapEvent'.updated[i])) :
                        \A k \in BoundIndices(snapEvent'.updated,
                                              BoundPair(snapEvent'.updated[i])) :
                            \/ reactState'[j] = snapEvent'.updated[k]
                            \/ \E f \in 1..(k - 1) :
                                  reactState'[j] = snapEvent'.updated[f]]_vars

\* two connectors bound to the same pair in opposite directions went through
\* duplicate elimination and only the first was stored
C19_Witness ==
    /\ snapEvent.ran
    /\ reactState = snapEvent.result
    /\ \E i, k \in 1..Len(snapEvent.updated) :
          /\ i < k
          /\ FullyBound(snapEvent.updated[i])
          /\ FullyBound(snapEvent.updated[k])
          /\ snapEvent.updated[i].startBinding.elementId # snapEvent.updated[i].endBinding.elementId
          /\ snapEvent.updated[i].startBinding.elementId = snapEvent.updated[k].endBinding.elementId
          /\ snapEvent.updated[i].endBinding.elementId = snapEvent.updated[k].startBinding.elementId
          /\ HasId(reactState, snapEvent.updated[i].id)
          /\ ~HasId(reactState, snapEvent.updated[k].id)

\* the four edge midpoints of a box, as points
Midpoints(rect) ==
    { <<rect.x, rect.y + rect.height \div 2>>,
      <<rect.x + rect.width, rect.y + rect.height \div 2>>,
      <<rect.x + rect.width \div 2, rect.y>>,
      <<rect.x + rect.width \div 2, rect.y + rect.height>> }
Dist2(p, q) == (q[1] - p[1]) * (q[1] - p[1]) + (q[2] - p[2]) * (q[2] - p[2])
\* <<p, q>> is, of the 16 pairings of an edge midpoint of boxA with one of
\* boxB, one at the least Euclidean distance
IsShortestPair(p, q, boxA, boxB) ==
    /\ p \in Midpoints(boxA)
    /\ q \in Midpoints(boxB)
    /\ \A p2 \in Midpoints(boxA), q2 \in Midpoints(boxB) : Dist2(p, q) <= Dist2(p2, q2)
ArrowStart(el) == <<el.x, el.y>>
ArrowEnd(el) == <<el.x + el.points[2][1], el.y + el.points[2][2]>>
Rects(els) == SelectSeq(els, IsRectangle)
\* the effect finds two boxes to bind the connector el between
Snappable(el, rects) ==
    /\ IsArrow(el)
    /\ Len(el.points) >= 2
    /\ snapTargets(el, rects).si # 0
    /\ snapTargets(el, rects).ei # 0
StartRectOf(el, rects) == rects[snapTargets(el, rects).si]
EndRectOf(el, rects) == rects[snapTargets(el, rects).ei]
SameBox(rect, x, y, w, h) ==
    rect.x = x /\ rect.y = y /\ rect.width = w /\ rect.height = h
\* the connector u, which was el before the pass, has its endpoints on a
\* shortest pair of edge midpoints of the two boxes; between Box A at
\* (0,0,100,100) and Box B at (300,0,100,100) these are (100,50) and (300,50)
SetToShortest(el, u, rects) ==
    /\ IsShortestPair(ArrowStart(u), ArrowEnd(u),
                      StartRectOf(el, rects), EndRectOf(el, rects))
    /\ (/\ SameBox(StartRectOf(el, rects), 0, 0, 100, 100)
        /\ SameBox(EndRectOf(el, rects), 300, 0, 100, 100)) =>
            (ArrowStart(u) = <<100, 50>> /\ ArrowEnd(u) = <<300, 50>>)
\* the pass stores the connector updated[i] in els, unless it duplicates an
\* earlier connector of updated
StoredAs(i, updated, els) ==
    \/ \E j \in 1..Len(els) : els[j] = updated[i]
    \/ \E k \in 1..(i - 1) :
          /\ FullyBound(updated[k])
          /\ BoundPair(updated[k]) = BoundPair(updated[i])

\* the effect bound the connector el: it replaced it with u, whose bindings
\* name the two boxes (lines 227-246)
BoundBy(el, u, rects) ==
    /\ u # el
    /\ u.startBinding.elementId = StartRectOf(el, rects).id
    /\ u.endBinding.elementId = EndRectOf(el, rects).id

OutputOfPass == snapEvent.ran /\ snapEvent.result = excalidrawElements

\* C21: a run of the effect on a collection that is the output of a previous
\* run changes nothing: no element field changes, no version is bumped and
\* the store is not written again.
C21_EngineIdempotence ==
    [][(PassStep /\ OutputOfPass) =>
          /\ ~snapEvent'.changed
          /\ snapEvent'.updated = excalidrawElements
          /\ snapEvent'.result = excalidrawElements
          /\ reactState' = reactState]_vars

(***************************************************************************)
(* Properties of the elements of the host store (specification Spec).      *)
(***************************************************************************)
UniqueIds(els) ==
    \A i, j \in 1..Len(els) : els[i].id = els[j].id => i = j

\* C22: the ids of the elements of the host collection are unique at all
\* times, whatever commands and snapshots produced it.
C22_UniqueIds == UniqueIds(reactState)

(***************************************************************************)
(* Versions of the elements of the host collection (SpecCanvas, SpecSnap   *)
(* and Spec).                                                              *)
(***************************************************************************)
\* no element of before has a lower version in after
VersionsKept(before, after) ==
    \A i \in 1..Len(before), j \in 1..Len(after) :
        after[j].id = before[i].id => after[j].version >= before[i].version

\* C23: for every element id, the version never decreases between
\* successive host collections; here across a surface snapshot that
\* handleChange rejects and answers by restoring the cache.
C23_VersionNeverDecreases ==
    [][(OnChangeStep /\ canvasEvent'.outcome = "restored") =>
          VersionsKept(elements, elements')]_vars

\* a step in which addElement stored its collection
AddElementStored ==
    /\ commands' = commands + 1
    /\ hostEvent'.op = "addElement"
    /\ Len(reactState') = Len(excalidrawElements) + 1

\* C24: whenever an operation changes a field of an existing element, the
\* element's version in the new collection is strictly greater than before;
\* here for addElement, which adds the id of a connector to the boundElements
\* of its target boxes.
C24_VersionBumpedOnMutation ==
    [][AddElementStored =>
          \A i \in 1..Len(excalidrawElements) :
              reactState'[i] # excalidrawElements[i] =>
                  reactState'[i].version > excalidrawElements[i].version]_vars

(***************************************************************************)
(* Properties of the agent commands (specification Spec).                  *)
(***************************************************************************)
\* every geometry field that data gives is the field of el
GeometryAsGiven(data, el) ==
    /\ data.x # undefined => el.x = data.x
    /\ data.y # undefined => el.y = data.y
    /\ data.width # undefined => el.width = data.width
    /\ data.height # undefined => el.height = data.height

\* C25: addElement appends exactly one element at the end and keeps the
\* existing elements in their order; every geometry field given in the
\* element data, the value 0 included, is kept as given.
C25_AddElementAppends ==
    [][AddElementStored =>
          /\ \A i \in 1..Len(excalidrawElements) :
                reactState'[i].id = excalidrawElements[i].id
          /\ \A elementData \in ElementSpecs :
                (/\ elementData.id # undefinedId
                 /\ reactState'[Len(reactState')].id = elementData.id) =>
                    GeometryAsGiven(elementData, reactState'[Len(reactState')])]_vars

\* a step in which addMultipleElements ran
AddMultipleStep ==
    /\ commands' = commands + 1
    /\ hostEvent'.op = "addMultipleElements"

\* C26: addMultipleElements appends the batch after the existing elements
\* in batch order; a malformed element is rebuilt with defaults, not
\* dropped, so the new size is the old size plus the batch size.
C26_BatchAppendsAll ==
    [][AddMultipleStep =>
          \A elementsToAdd \in Batches :
              (/\ elementsToAdd # <<>>
               /\ elementsToAdd[1].id # undefinedId
               /\ Len(reactState') > Len(excalidrawElements)
               /\ reactState'[Len(excalidrawElements) + 1].id = elementsToAdd[1].id) =>
                  /\ Len(reactState') = Len(excalidrawElements) + Len(elementsToAdd)
                  /\ \A k \in 1..Len(elementsToAdd) :
                        reactState'[Len(excalidrawElements) + k].id = elementsToAdd[k].id]_vars

\* C27: when addElement receives a connector whose start or end binding
\* names an id that is not in the collection, the connector is appended
\* with that binding unset: every binding of the appended connector names
\* an element of the collection.
C27_UnresolvableBindingUnset ==
    [][(AddElementStored /\ IsArrow(reactState'[Len(reactState')])) =>
          \A b \in {reactState'[Len(reactState')].startBinding,
                    reactState'[Len(reactState')].endBinding} :
              b.elementId # undefinedId => HasId(reactState', b.elementId)]_vars

\* a step in which the agent called addRelativeElement with a reference id
\* that names the box anchor of the collection
AddRelativeTo(anchor) ==
    /\ commands' = commands + 1
    /\ hostEvent'.op = "addRelativeElement"
    /\ anchor.type = "rectangle"
    /\ hostEvent'.arg[1].relativeToId = anchor.id

\* C28: addRelativeElement resolves the reference id to an existing box and
\* appends a new box placed from the position and the spacing: to the right
\* of the anchor, at (anchor.x + anchor.width + spacing, anchor.y) with the
\* given size (an anchor at (100,100,200,150) and spacing 50 give
\* (350,100,200,150)).
C28_RelativePlacement ==
    [][\A a \in 1..Len(excalidrawElements) :
          AddRelativeTo(excalidrawElements[a]) =>
              /\ Len(reactState') = Len(excalidrawElements) + 1
              /\ reactState'[Len(reactState')].type = "rectangle"
              /\ reactState'[Len(reactState')].x =
                    excalidrawElements[a].x + excalidrawElements[a].width
                    + hostEvent'.arg[1].spacing
              /\ reactState'[Len(reactState')].y = excalidrawElements[a].y
              /\ reactState'[Len(reactState')].width = hostEvent'.arg[1].width
              /\ reactState'[Len(reactState')].height = hostEvent'.arg[1].height]_vars

(***************************************************************************)
(* The outbound track of the fingerprint-based canvas (SpecHash).          *)
(***************************************************************************)
TimeoutFired == Len(PendingTimeouts(debounceTimer')) < Len(PendingTimeouts(debounceTimer))

\* C29: at most one debounce timeout is pending at any time; scheduling a
\* push while one is pending leaves the new timeout alone, so the timeout
\* that fires is the one scheduled last and what it delivers is the snapshot
\* scheduled last: a superseded snapshot is not delivered.
C29_OutboundDebounce ==
    [][/\ Len(PendingTimeouts(debounceTimer')) <= 1
       /\ (canvasEvent'.op = "effect" /\ canvasEvent'.outcome = "scheduled") =>
              PendingTimeouts(debounceTimer') = <<Timeout(DebounceMs, elements)>>
       /\ TimeoutFired =>
              /\ debounceTimer.armed
              /\ PendingTimeouts(debounceTimer') = <<>>
              /\ scene' # scene => scene' = debounceTimer.elements]_vars

\* a push was scheduled while another was pending, and the timeout that
\* fired then delivered the host collection
C29_Witness ==
    /\ debounceTimer.replaced
    /\ ~debounceTimer.armed
    /\ canvasEvent.op = "debounce"
    /\ canvasEvent.outcome = "pushed"
    /\ scene = elements

\* updateScene is invoked: the timeout callback pushes the scene
UpdateSceneInvoked == TimeoutFired /\ canvasEvent'.outcome = "pushed"

\* C30: updateScene is never invoked while the updating flag of a previous
\* push is still set, the push sets the flag, and after every push the flag
\* is eventually cleared.
C30_OutboundTrack ==
    /\ [][UpdateSceneInvoked => (~isUpdatingRef /\ isUpdatingRef')]_vars
    /\ (isUpdatingRef ~> ~isUpdatingRef)

\* a push was made and its flag has been cleared by the 50 ms timeout
C30_Witness ==
    /\ canvasEvent.op = "clearUpdating"
    /\ ~isUpdatingRef
    /\ lastPushedHashRef # EmptyHash
    /\ scene = elements


(***************************************************************************)
(* Properties of the lookups and of the frame of the snapping effect       *)
(* (specification SpecSnap).                                               *)
(***************************************************************************)
\* the effect got past its early returns in this step
PassRan == PassStep /\ snapEvent'.ran

\* the connectors of els the map callback looks rectangles up for
HasEndpoints(el) == IsArrow(el) /\ Len(el.points) >= 2

\* rects[k] is a box that is not deleted, no such box of rects is nearer by
\* its centre to (x, y), and none as near comes before it
NearestLiveBox(rects, k, x, y) ==
    /\ k \in 1..Len(rects)
    /\ ~rects[k].isDeleted
    /\ \A j \in 1..Len(rects) :
          ~rects[j].isDeleted =>
              \/ CenterDistance(rects[k], x, y) < CenterDistance(rects[j], x, y)
              \/ /\ CenterDistance(rects[k], x, y) = CenterDistance(rects[j], x, y)
                 /\ k <= j

\* C31: in every run of the effect, the lookup for the start point of a
\* connector returns the first box, among the boxes that are not deleted,
\* whose centre is at the least distance from the point (and none only when
\* there is no such box).
C31_NearestShapeLookup ==
    [][PassRan =>
          \A i \in 1..Len(excalidrawElements) :
              HasEndpoints(excalidrawElements[i]) =>
                  LET rects == Rects(excalidrawElements)
                      x == ArrowStart(excalidrawElements[i])[1]
                      y == ArrowStart(excalidrawElements[i])[2]
                      k == findClosestRectangle(rects, x, y, undefinedId)
                  IN  IF \A j \in 1..Len(rects) : rects[j].isDeleted
                      THEN k = 0
                      ELSE NearestLiveBox(rects, k, x, y)]_vars


\* the fraction f is a number within [-0.5, 0.5] (0/0 is NaN, no number)
InHalfRange(f) == f[2] > 0 /\ 2 * f[1] <= f[2] /\ 2 * f[1] >= -f[2]

\* f is the focus of the point (px, py) on box: with d = P - centre, d.y/height
\* when |d.x|/width > |d.y|/height and d.x/width otherwise, clamped
FocusOf(box, px, py, f) ==
    LET dx2 == 2 * px - (2 * box.x + box.width)
        dy2 == 2 * py - (2 * box.y + box.height)
        raw == IF Abs(dx2) * box.height > Abs(dy2) * box.width
               THEN <<dy2, 2 * box.height>> ELSE <<dx2, 2 * box.width>>
    IN  /\ f[2] > 0
        /\ IF 2 * raw[1] > raw[2] THEN 2 * f[1] = f[2]
           ELSE IF 2 * raw[1] < -raw[2] THEN 2 * f[1] = -f[2]
           ELSE f[1] * raw[2] = raw[1] * f[2]

\* the connector el gets its bindings written by this run of the effect
BindingsWritten(i) ==
    /\ PassRan
    /\ snapEvent'.updated[i] # excalidrawElements[i]

\* addElement appends an arrow in this step with a binding it detected (the
\* arrows of SnapSpecs are given without bindings)
AutoBound(side) ==
    /\ AddStep
    /\ hostEvent'.op = "addElement"
    /\ Len(reactState') = Len(excalidrawElements) + 1
    /\ IsArrow(reactState'[Len(reactState')])
    /\ reactState'[Len(reactState')][side].elementId # undefinedId

\* C32: every binding the snapping pass writes holds the focus of the other
\* end's edge midpoint on the bound box, as the rule gives it, within
\* [-0.5, 0.5]; and so does every binding addElement detects, for the
\* arrow's other endpoint.
C32_FocusComputation ==
    /\ [][\A i \in 1..Len(excalidrawElements) :
             BindingsWritten(i) =>
                 LET el    == excalidrawElements[i]
                     u     == snapEvent'.updated[i]
                     rects == Rects(excalidrawElements)
                 IN  /\ InHalfRange(u.startBinding.focus)
                     /\ InHalfRange(u.endBinding.focus)
                     /\ FocusOf(StartRectOf(el, rects), ArrowEnd(u)[1], ArrowEnd(u)[2],
                                u.startBinding.focus)
                     /\ FocusOf(EndRectOf(el, rects), ArrowStart(u)[1], ArrowStart(u)[2],
                                u.endBinding.focus)]_vars
    /\ [][\A side \in {"startBinding", "endBinding"} :
             AutoBound(side) =>
                 InHalfRange(reactState'[Len(reactState')][side].focus)]_vars


\* el is listed in els as often as in the collection before
KeptIn(el, before, after) ==
    Cardinality({j \in 1..Len(after) : after[j] = el})
        = Cardinality({j \in 1..Len(before) : before[j] = el})

\* C33: every connector that comes out of the snapping step with its start
\* or end binding missing is in the result of duplicate elimination, as
\* often as it was before it.
C33_IncompleteNeverRemoved ==
    [][PassRan =>
          \A i \in 1..Len(snapEvent'.updated) :
              (IsArrow(snapEvent'.updated[i]) /\ ~FullyBound(snapEvent'.updated[i]))
                  => KeptIn(snapEvent'.updated[i], snapEvent'.updated,
                            snapEvent'.result)]_vars

\* a run removed a duplicate connector and kept, after the connector it
\* kept for that connection, a connector bound at its start only
C33_Witness ==
    /\ snapEvent.ran
    /\ Len(snapEvent.result) < Len(snapEvent.updated)
    /\ \E i, j \in 1..Len(snapEvent.result) :
          /\ i < j
          /\ FullyBound(snapEvent.result[i])
          /\ IsArrow(snapEvent.result[j])
          /\ snapEvent.result[j].startBinding.elementId # undefinedId
          /\ snapEvent.result[j].endBinding.elementId = undefinedId


WithoutVersions(els) == [i \in 1..Len(els) |-> [els[i] EXCEPT !.version = 0]]

\* two runs of the effect, each on the output of the one before and each
\* writing the store, bring the collection els back but for its versions
\* (the effect reads a version only to add one to it, so the collection
\* comes back again after every second run, and every run writes the store)
Recurs(els) ==
    LET first  == snappingEffect(els)
        second == snappingEffect(first.result)
    IN  /\ first.ran /\ first.changed
        /\ second.ran /\ second.changed
        /\ WithoutVersions(second.result) = WithoutVersions(els)

\* C34: re-running the effect on its own output reaches, after finitely many
\* runs, a run that changes nothing; so the collection of no render is one
\* that the effect, writing the store in every run, returns to two runs
\* later with higher versions.
C34_SnappingConverges == ~Recurs(excalidrawElements)


(***************************************************************************)
(* Properties of the element cache of the canvas (specification            *)
(* SpecCanvas).                                                            *)
(***************************************************************************)
\* the surface emits a snapshot shorter than the non-empty cache
ShorterThanCache ==
    /\ OnChangeStep
    /\ Len(elementCacheRef) > 0
    /\ Len(canvasEvent'.arg) < Len(elementCacheRef)

PushSkipped ==
    /\ EffectStep
    /\ canvasEvent'.outcome \in {"skip_same_as_pushed", "skip_same_as_received"}

\* C36: the effect skips scheduling a push only when the surface displays a
\* collection with the fingerprint of the host collection; so a host
\* collection that returns to an earlier fingerprint after the surface has
\* moved on is scheduled.
C36_SkipOnlyWhenDisplayed ==
    [][PushSkipped => getElementsHash(scene) = getElementsHash(elements)]_vars


(***************************************************************************)
(* Frame of a rejection by setValue (specification Spec).                  *)
(***************************************************************************)
\* setValue ran in this step and took its blocking branch
SetValueRejected == SetValueStep /\ hostEvent'.decision = "blocked"

\* C37: a call of setValue that rejects its snapshot changes neither the
\* stored collection nor the last-update record (timestamp, source, count),
\* so setValue decides on any snapshot offered next as it would have decided
\* without the rejected call.
C37_RejectionChangesNothing ==
    [][SetValueRejected =>
          /\ reactState' = reactState
          /\ lastUpdateRef' = lastUpdateRef
          /\ \A v \in Snapshots :
                setValueDecision(excalidrawElements', lastUpdateRef', v, now')
                    = setValueDecision(excalidrawElements, lastUpdateRef, v, now)]_vars

\* a snapshot was rejected some time after the last accepted update, and the
\* record still holds that update's timestamp and count
C37_Witness ==
    /\ hostEvent.op = "setValue"
    /\ hostEvent.decision = "blocked"
    /\ Len(hostEvent.arg) < Len(reactState)
    /\ lastUpdateRef.source = "increase"
    /\ lastUpdateRef.count = Len(reactState)
    /\ lastUpdateRef.timestamp < now


\* the elements of els that are no connectors, in order
NonConnectors(els) == SelectSeq(els, LAMBDA el : ~IsArrow(el))
Connectors(els) == SelectSeq(els, IsArrow)

\* a is b with some of its entries left out
RECURSIVE IsSubsequence(_, _)
IsSubsequence(a, b) ==
    IF a = <<>> THEN TRUE
    ELSE IF b = <<>> THEN FALSE
    ELSE IF Head(a) = Head(b) THEN IsSubsequence(Tail(a), Tail(b))
    ELSE IsSubsequence(a, Tail(b))

\* C38: in every run of the effect the elements that are no connectors come
\* out as they went in, none added, removed or modified, in the same order;
\* and the connectors that are retained are in the order the connectors had
\* after snapping.
C38_PassFrame ==
    [][PassRan =>
          /\ NonConnectors(snapEvent'.updated) = NonConnectors(excalidrawElements)
          /\ NonConnectors(snapEvent'.result) = NonConnectors(excalidrawElements)
          /\ IsSubsequence(Connectors(snapEvent'.result),
                           Connectors(snapEvent'.updated))
          /\ snapEvent'.changed => reactState' = snapEvent'.result]_vars

\* a run over a collection with a connector before its boxes and a text
\* label removed a duplicate connector and stored the rest, boxes and label
\* first
C38_Witness ==
    /\ snapEvent.ran
    /\ snapEvent.changed
    /\ IsArrow(excalidrawElements[1])
    /\ Len(snapEvent.result) < Len(excalidrawElements)
    /\ Len(Connectors(snapEvent.result)) >= 1
    /\ Len(NonConnectors(snapEvent.result)) = 3
    /\ \E i \in 1..3 : snapEvent.result[i].type = "text"
    /\ reactState = snapEvent.result


(***************************************************************************)
(* The smart positioning of addElement (specification SpecSnap).           *)
(***************************************************************************)
\* addElement stored in this step the collection it built for elementData
AddElementOf(elementData, genId) ==
    /\ AddElementStored
    /\ reactState' = addElementResult(excalidrawElements, elementData, genId)

\* the positioning loop runs: x or y is not given and current is not empty
AutoPositioned(elementData) ==
    /\ elementData.x = undefined \/ elementData.y = undefined
    /\ Len(excalidrawElements) > 0

\* the interiors of the two rectangles meet
Overlaps(r1, r2) ==
    /\ r1.x < r2.x + r2.width
    /\ r2.x < r1.x + r1.width
    /\ r1.y < r2.y + r2.height
    /\ r2.y < r1.y + r1.height

\* C39: the positioning loop of addElement ends after at most 100 attempts,
\* and when it ends before the 100th the element is stored at the position
\* the loop stopped at, where its rectangle overlaps no rectangle element of
\* the collection.
C39_AutoPositioning ==
    [][\A elementData \in SnapSpecs, genId \in GenIds :
          (AutoPositioned(elementData) /\ AddElementOf(elementData, genId)) =>
              LET pos == AutoPosition(excalidrawElements,
                                      OrElse(elementData.x, 100),
                                      OrElse(elementData.y, 100),
                                      OrElse(elementData.width, 200),
                                      OrElse(elementData.height, 150), 0)
                  new == reactState'[Len(reactState')]
              IN  /\ pos.attempts <= 100
                  /\ pos.attempts < 100 =>
                        /\ new.x = pos.x
                        /\ new.y = pos.y
                        /\ \A i \in 1..Len(excalidrawElements) :
                              excalidrawElements[i].type = "rectangle"
                                  => ~Overlaps(new, excalidrawElements[i])]_vars

\* an arrow given no position was moved once, off the box c at
\* (90,140,20,120) that the default position (100,100) overlaps, and stored
\* at (150,150)
C39_Witness ==
    /\ hostEvent.op = "addElement"
    /\ Len(reactState) = Len(excalidrawElements) + 1
    /\ \E i \in 1..Len(excalidrawElements) :
          /\ IsRectangle(excalidrawElements[i])
          /\ SameBox(excalidrawElements[i], 90, 140, 20, 120)
    /\ reactState[Len(reactState)].id = "k8"
    /\ reactState[Len(reactState)].x = 150
    /\ reactState[Len(reactState)].y = 150

====
